---- MODULE Spec2Model ----
(***************************************************************************)
(* Model of src/app.py: the invoice pipeline clean_data -> currency        *)
(* conversion -> calculate_risk_score -> KPI block -> hypothesis check.    *)
(*                                                                         *)
(* Conventions.                                                            *)
(*  - A string of the program is a sequence of one-character strings.      *)
(*    The non-ASCII characters and words of the source are written with    *)
(*    ASCII names: "APPROX" is the approximation sign, "RUBLE" the ruble   *)
(*    sign, "oplachen" the Russian word for paid, "egipet" the Russian     *)
(*    word for Egypt, and the Russian column headers are transliterated.   *)
(*  - A number is an exact rational [n, d] in lowest terms with d > 0      *)
(*    (binary floating-point rounding is not modelled).                    *)
(*  - A timestamp is a number of ticks since 2024-01-01 00:00, with        *)
(*    TicksPerDay ticks in a day.                                          *)
(*  - A table cell is a record [k, s, q, t]: k = "null" (NaN/NaT/None),    *)
(*    "str" (s), "num" (q) or "ts" (t).                                    *)
(***************************************************************************)
EXTENDS Integers, Sequences, FiniteSets, TLC

(***************************************************************************)
(* Rational numbers                                                        *)
(***************************************************************************)
Abs(a) == IF a < 0 THEN -a ELSE a

RECURSIVE GCD(_, _)
GCD(a, b) == IF b = 0 THEN a ELSE GCD(b, a % b)

Q(n, d) ==
    LET g == GCD(Abs(n), Abs(d))
        s == IF d < 0 THEN -1 ELSE 1
    IN  [n |-> (s * n) \div g, d |-> (s * d) \div g]

QInt(i) == [n |-> i, d |-> 1]
QZero == QInt(0)
QAdd(a, b) == Q(a.n * b.d + b.n * a.d, a.d * b.d)
QMul(a, b) == Q(a.n * b.n, a.d * b.d)
QDiv(a, b) == Q(a.n * b.d, a.d * b.n)
QLt(a, b) == a.n * b.d < b.n * a.d
QGt(a, b) == QLt(b, a)

(***************************************************************************)
(* Cells                                                                   *)
(***************************************************************************)
NullCell == [k |-> "null", s |-> <<>>, q |-> QZero, t |-> 0]
StrCell(s) == [k |-> "str", s |-> s, q |-> QZero, t |-> 0]
NumCell(q) == [k |-> "num", s |-> <<>>, q |-> q, t |-> 0]
TsCell(t) == [k |-> "ts", s |-> <<>>, q |-> QZero, t |-> t]
IsNull(c) == c.k = "null"

(***************************************************************************)
(* Sequences                                                               *)
(***************************************************************************)
RECURSIVE SelectIdx(_, _, _)
\* the indices i of 1..n, in increasing order, for which P[i] holds
SelectIdx(P, i, n) ==
    IF i > n THEN <<>>
    ELSE (IF P[i] THEN <<i>> ELSE <<>>) \o SelectIdx(P, i + 1, n)

RECURSIVE InsertSorted(_, _)
InsertSorted(x, s) ==
    IF s = <<>> THEN <<x>>
    ELSE IF QLt(s[1], x) THEN <<s[1]>> \o InsertSorted(x, Tail(s))
    ELSE <<x>> \o s

RECURSIVE SortQ(_)
SortQ(s) == IF s = <<>> THEN <<>> ELSE InsertSorted(s[1], SortQ(Tail(s)))

RECURSIVE QSum(_)
QSum(s) == IF s = <<>> THEN QZero ELSE QAdd(s[1], QSum(Tail(s)))

(***************************************************************************)
(* Strings (sequences of characters)                                       *)
(***************************************************************************)
DigitChar == <<"0", "1", "2", "3", "4", "5", "6", "7", "8", "9">>
IsDigit(c) == \E i \in 1..10 : DigitChar[i] = c
DigitVal(c) == (CHOOSE i \in 1..10 : DigitChar[i] = c) - 1
AllDigits(s) == \A i \in 1..Len(s) : IsDigit(s[i])

RECURSIVE DigitsVal(_)
\* the number written by a sequence of digits (0 for the empty sequence)
DigitsVal(s) ==
    IF s = <<>> THEN 0
    ELSE 10 * DigitsVal(SubSeq(s, 1, Len(s) - 1)) + DigitVal(s[Len(s)])

RECURSIVE Digits(_)
\* the decimal digits of a natural number
Digits(n) ==
    IF n < 10 THEN <<DigitChar[n + 1]>>
    ELSE Digits(n \div 10) \o <<DigitChar[(n % 10) + 1]>>

RECURSIVE Pow10(_)
Pow10(k) == IF k = 0 THEN 1 ELSE 10 * Pow10(k - 1)

UpperChars ==
    <<"A", "B", "C", "D", "E", "F", "G", "H", "I", "J", "K", "L", "M",
      "N", "O", "P", "Q", "R", "S", "T", "U", "V", "W", "X", "Y", "Z">>
LowerChars ==
    <<"a", "b", "c", "d", "e", "f", "g", "h", "i", "j", "k", "l", "m",
      "n", "o", "p", "q", "r", "s", "t", "u", "v", "w", "x", "y", "z">>

\* str.lower() on one character
LowerChar(c) ==
    IF \E i \in 1..Len(UpperChars) : UpperChars[i] = c
    THEN LowerChars[CHOOSE i \in 1..Len(UpperChars) : UpperChars[i] = c]
    ELSE c

str_lower(s) == [i \in 1..Len(s) |-> LowerChar(s[i])]

RECURSIVE str_strip(_)
\* str.strip(): leading and trailing whitespace removed
str_strip(s) ==
    IF s = <<>> THEN s
    ELSE IF s[1] = " " THEN str_strip(Tail(s))
    ELSE IF s[Len(s)] = " " THEN str_strip(SubSeq(s, 1, Len(s) - 1))
    ELSE s

StartsWith(s, pat, ci) ==
    /\ Len(pat) <= Len(s)
    /\ \A i \in 1..Len(pat) :
          IF ci THEN LowerChar(s[i]) = LowerChar(pat[i]) ELSE s[i] = pat[i]

RECURSIVE str_replace(_, _, _, _)
\* Series.str.replace(pat, repl, case = ~ci, regex=False): every
\* non-overlapping occurrence of pat, left to right
str_replace(s, pat, repl, ci) ==
    IF s = <<>> THEN <<>>
    ELSE IF StartsWith(s, pat, ci)
         THEN repl \o str_replace(SubSeq(s, Len(pat) + 1, Len(s)), pat, repl, ci)
         ELSE <<s[1]>> \o str_replace(Tail(s), pat, repl, ci)

RECURSIVE FracDigits(_, _, _)
\* the digits after the decimal point of r/d (0 <= r < d), at most k of them
FracDigits(r, d, k) ==
    IF r = 0 \/ k = 0 THEN <<>>
    ELSE <<DigitChar[((r * 10) \div d) + 1]>> \o FracDigits((r * 10) % d, d, k - 1)

\* str(float): sign, integer part, point, at least one fractional digit
FloatStr(q) ==
    LET a == Abs(q.n)
        f == FracDigits(a % q.d, q.d, 17)
    IN  (IF q.n < 0 THEN <<"-">> ELSE <<>>)
        \o Digits(a \div q.d) \o <<".">> \o (IF f = <<>> THEN <<"0">> ELSE f)

\* Series.astype(str) on one cell of a column of strings and floats
astype_str(c) ==
    CASE c.k = "null" -> <<"n", "a", "n">>
      [] c.k = "str" -> c.s
      [] c.k = "num" -> FloatStr(c.q)

\* pd.to_numeric(errors='coerce') on one string: [sign] digits [. digits];
\* everything else, the text "nan" included, becomes NaN
to_numeric(s) ==
    LET neg == s # <<>> /\ s[1] = "-"
        pos == s # <<>> /\ s[1] = "+"
        body == IF neg \/ pos THEN Tail(s) ELSE s
        dots == SelectIdx([i \in 1..Len(body) |-> body[i] = "."], 1, Len(body))
        ip == IF dots = <<>> THEN body ELSE SubSeq(body, 1, dots[1] - 1)
        fp == IF dots = <<>> THEN <<>> ELSE SubSeq(body, dots[1] + 1, Len(body))
        ok == /\ Len(dots) <= 1
              /\ AllDigits(ip) /\ AllDigits(fp)
              /\ Len(ip) + Len(fp) > 0
        mag == DigitsVal(ip) * Pow10(Len(fp)) + DigitsVal(fp)
    IN  IF ok THEN NumCell(Q(IF neg THEN -mag ELSE mag, Pow10(Len(fp))))
        ELSE NullCell

(***************************************************************************)
(* Dates                                                                   *)
(***************************************************************************)
TicksPerDay == 2

IsLeap(y) == (y % 4 = 0 /\ y % 100 # 0) \/ y % 400 = 0
DaysInMonth(m, y) ==
    IF m = 2 THEN (IF IsLeap(y) THEN 29 ELSE 28)
    ELSE IF m \in {4, 6, 9, 11} THEN 30 ELSE 31

RECURSIVE DaysBeforeMonth(_, _)
DaysBeforeMonth(m, y) ==
    IF m = 1 THEN 0 ELSE DaysBeforeMonth(m - 1, y) + DaysInMonth(m - 1, y)

RECURSIVE DaysBeforeYear(_)
\* days from 2024-01-01 to the first of January of year y
DaysBeforeYear(y) ==
    IF y = 2024 THEN 0
    ELSE IF y > 2024 THEN DaysBeforeYear(y - 1) + (IF IsLeap(y - 1) THEN 366 ELSE 365)
    ELSE DaysBeforeYear(y + 1) - (IF IsLeap(y) THEN 366 ELSE 365)

Timestamp(y, m, d) ==
    TicksPerDay * (DaysBeforeYear(y) + DaysBeforeMonth(m, y) + d - 1)

\* pd.to_datetime(errors='coerce', dayfirst=True) on one cell; a string is
\* read as DD.MM.YYYY, anything that is not such a date becomes NaT
to_datetime(c) ==
    IF c.k = "ts" THEN c
    ELSE IF c.k # "str" THEN NullCell
    ELSE LET s == c.s
             dots == SelectIdx([i \in 1..Len(s) |-> s[i] = "."], 1, Len(s))
             ds == IF Len(dots) = 2 THEN SubSeq(s, 1, dots[1] - 1) ELSE <<>>
             ms == IF Len(dots) = 2 THEN SubSeq(s, dots[1] + 1, dots[2] - 1) ELSE <<>>
             ys == IF Len(dots) = 2 THEN SubSeq(s, dots[2] + 1, Len(s)) ELSE <<>>
             ok == /\ Len(dots) = 2
                   /\ AllDigits(ds) /\ AllDigits(ms) /\ AllDigits(ys)
                   /\ Len(ds) \in 1..2 /\ Len(ms) \in 1..2 /\ Len(ys) = 4
                   /\ DigitsVal(ms) \in 1..12
                   /\ DigitsVal(ds) \in 1..DaysInMonth(DigitsVal(ms), DigitsVal(ys))
         IN  IF ok THEN TsCell(Timestamp(DigitsVal(ys), DigitsVal(ms), DigitsVal(ds)))
             ELSE NullCell

(***************************************************************************)
(* Tables and pandas column operations                                     *)
(*   a table is [columns, index, rows]: the set of column names, the row   *)
(*   labels (the position in the uploaded table) and the rows, each a      *)
(*   function from the column names to cells                               *)
(***************************************************************************)
EmptyTable == [columns |-> {}, index |-> <<>>, rows |-> <<>>]

Column(df, col) == [i \in 1..Len(df.rows) |-> df.rows[i][col]]

\* df[col] = values (the column is created when absent)
SetColumn(df, col, values) ==
    [df EXCEPT !.columns = df.columns \cup {col},
               !.rows = [i \in 1..Len(df.rows) |->
                            [c \in df.columns \cup {col} |->
                                IF c = col THEN values[i] ELSE df.rows[i][c]]]]

\* df[mask]: the rows at the given positions, labels kept
TakeRows(df, idx) ==
    [df EXCEPT !.index = [i \in 1..Len(idx) |-> df.index[idx[i]]],
               !.rows = [i \in 1..Len(idx) |-> df.rows[idx[i]]]]

\* Series.isna().sum()
isna_sum(col) == Cardinality({i \in 1..Len(col) : IsNull(col[i])})

NonNull(col) ==
    LET idx == SelectIdx([i \in 1..Len(col) |-> ~IsNull(col[i])], 1, Len(col))
    IN  [i \in 1..Len(idx) |-> col[idx[i]].q]

\* a median that takes the upper of the two middle values instead of their mean
MedianQ_upper(vals) ==
    LET s == SortQ(vals)
        n == Len(s)
    IN  IF n = 0 THEN NullCell ELSE NumCell(s[(n \div 2) + 1])

\* the median of a sequence of numbers, NaN when it is empty
MedianQ(vals) ==
    LET s == SortQ(vals)
        n == Len(s)
    IN  IF n = 0 THEN NullCell
        ELSE IF n % 2 = 1 THEN NumCell(s[(n + 1) \div 2])
        ELSE NumCell(QMul(QAdd(s[n \div 2], s[(n \div 2) + 1]), Q(1, 2)))

\* Series.median(): nulls are skipped
median(col) == MedianQ(NonNull(col))

\* Series.sum(): nulls are skipped, the sum of nothing is 0
sum(col) == QSum(NonNull(col))

(***************************************************************************)
(* clean_data                                                              *)
(***************************************************************************)
\* the header lookup table (source headers transliterated)
new_columns ==
    [c \in {"Kontragent", "Sudno", "Strana", "INKOTERMS", "Bank",
            "Kanal prodazh", "Nomer invoysa", "Data invoysa ili ego otpravki",
            "Summa invoysa", "Valyuta invoysa", "Sostoyanie invoysa",
            "Data fakticheskogo zachisleniya", "Summa fakticheskoy oplaty",
            "kross-kurs", "Menedzher", "Kommentariy"} |->
        CASE c = "Kontragent" -> "contractor"
          [] c = "Sudno" -> "vessel"
          [] c = "Strana" -> "country"
          [] c = "INKOTERMS" -> "incoterms"
          [] c = "Bank" -> "bank"
          [] c = "Kanal prodazh" -> "sales_channel"
          [] c = "Nomer invoysa" -> "invoice_id"
          [] c = "Data invoysa ili ego otpravki" -> "invoice_date"
          [] c = "Summa invoysa" -> "invoice_amount"
          [] c = "Valyuta invoysa" -> "invoice_currency"
          [] c = "Sostoyanie invoysa" -> "status"
          [] c = "Data fakticheskogo zachisleniya" -> "payment_date"
          [] c = "Summa fakticheskoy oplaty" -> "payment_amount"
          [] c = "kross-kurs" -> "cross_rate"
          [] c = "Menedzher" -> "manager"
          [] c = "Kommentariy" -> "comment"]

RenameCol(c) == IF c \in DOMAIN new_columns THEN new_columns[c] ELSE c

\* df.rename(columns=new_columns)
rename(df) ==
    LET cols == {RenameCol(c) : c \in df.columns}
    IN  [df EXCEPT !.columns = cols,
                   !.rows = [i \in 1..Len(df.rows) |->
                                [c2 \in cols |->
                                    df.rows[i][CHOOSE c \in df.columns : RenameCol(c) = c2]]]]

\* duplicated with keep='last': a row is a duplicate when a later row has
\* the same value
duplicated_keep_last(df, col) ==
    [i \in 1..Len(df.rows) |->
        \E j \in (i + 1)..Len(df.rows) : df.rows[j][col] = df.rows[i][col]]

\* df.duplicated(subset=[col], keep='first'): a row is a duplicate when an
\* earlier row has the same value; pandas takes two missing values as equal
duplicated(df, col) ==
    [i \in 1..Len(df.rows) |->
        \E j \in 1..(i - 1) : df.rows[j][col] = df.rows[i][col]]

\* df.drop_duplicates(subset=[col], keep='first')
drop_duplicates(df, col) ==
    LET dup == duplicated(df, col)
    IN  TakeRows(df, SelectIdx([i \in 1..Len(df.rows) |-> ~dup[i]], 1, Len(df.rows)))

MapColumn(df, col, F(_)) ==
    IF col \in df.columns
    THEN SetColumn(df, col, [i \in 1..Len(df.rows) |-> F(df.rows[i][col])])
    ELSE df

\* a chain of replacements that also removes the points, as if they were
\* thousands separators
clean_amount_drop_point(c) ==
    LET s0 == astype_str(c)
        s1 == str_replace(s0, <<"APPROX">>, <<>>, FALSE)
        s2 == str_replace(s1, <<"u", "s", "d">>, <<>>, TRUE)
        s3 == str_replace(s2, <<".">>, <<>>, FALSE)
        s4 == str_replace(s3, <<",">>, <<".">>, FALSE)
        s5 == str_replace(s4, <<" ">>, <<>>, FALSE)
        s6 == str_replace(s5, <<"RUBLE">>, <<>>, FALSE)
        s7 == str_replace(s6, <<"$">>, <<>>, FALSE)
    IN  to_numeric(s7)

\* the chain of replacements of an amount cell, then pd.to_numeric
clean_amount(c) ==
    LET s0 == astype_str(c)
        s1 == str_replace(s0, <<"APPROX">>, <<>>, FALSE)
        s2 == str_replace(s1, <<"u", "s", "d">>, <<>>, TRUE)
        s3 == str_replace(s2, <<",">>, <<".">>, FALSE)
        s4 == str_replace(s3, <<" ">>, <<>>, FALSE)
        s5 == str_replace(s4, <<"RUBLE">>, <<>>, FALSE)
        s6 == str_replace(s5, <<"$">>, <<>>, FALSE)
    IN  to_numeric(s6)

\* astype(str).str.strip().str.lower()
normalize_string(c) == StrCell(str_lower(str_strip(astype_str(c))))

\* Series.fillna(value) on one cell
fillna(c, value) == IF IsNull(c) THEN value ELSE c

LogIf(cond, key, value) == IF cond THEN key :> value ELSE <<>>

\* lines 55-58: the lookup of invoice_id is made only when the column exists
\* here; its absence is the KeyError reported by clean_data
remove_duplicates(d) ==
    IF "invoice_id" \in d.columns THEN drop_duplicates(d, "invoice_id") ELSE d

\* lines 60-67
convert_dates(d) ==
    MapColumn(MapColumn(d, "invoice_date", to_datetime), "payment_date", to_datetime)

\* lines 69-87
convert_amounts(d) ==
    MapColumn(MapColumn(d, "invoice_amount", clean_amount), "payment_amount", clean_amount)

\* lines 89-95: the nulls of cross_rate are filled with the median of the column
fill_cross_rate(d) ==
    LET fill(c) == fillna(c, median(Column(d, "cross_rate")))
    IN  MapColumn(d, "cross_rate", fill)

\* lines 97-102
normalize_strings(d) ==
    MapColumn(MapColumn(MapColumn(MapColumn(d, "status", normalize_string),
                                  "contractor", normalize_string),
                        "country", normalize_string),
              "manager", normalize_string)

\* the log dictionary: df is the table passed in, d1 the renamed table, d4
\* the table before the cross_rate step, d6 the table returned
cleaning_log(df, d1, d4, d6) ==
    LET has_rate == "cross_rate" \in d4.columns
        duplicates == Cardinality({i \in 1..Len(d1.rows) : duplicated(d1, "invoice_id")[i]})
        InvalidLog(col, suffix) ==
            IF col \in d6.columns THEN (col \o suffix) :> isna_sum(Column(d6, col)) ELSE <<>>
        StringLog(col) == LogIf(col \in d6.columns, col \o "_normalized", TRUE)
    IN  ("initial_rows" :> Len(df.rows))
        @@ ("initial_columns" :> df.columns)
        @@ ("columns_renamed" :> d1.columns)
        @@ ("duplicates_removed" :> duplicates)
        @@ InvalidLog("invoice_date", "_invalid_dates")
        @@ InvalidLog("payment_date", "_invalid_dates")
        @@ InvalidLog("invoice_amount", "_invalid_values")
        @@ InvalidLog("payment_amount", "_invalid_values")
        @@ (IF has_rate
            THEN ("cross_rate_nulls_filled" :> isna_sum(Column(d4, "cross_rate")))
                 @@ ("cross_rate_median_value" :> median(Column(d4, "cross_rate")))
            ELSE <<>>)
        @@ StringLog("status") @@ StringLog("contractor")
        @@ StringLog("country") @@ StringLog("manager")
        @@ ("final_rows" :> Len(d6.rows))

\* what clean_data returns: error is TRUE when the lookup of the invoice_id
\* column raises KeyError, and then nothing else is read
clean_result(df, d1, d4, d6) ==
    IF "invoice_id" \notin d1.columns
    THEN [error |-> TRUE, df_clean |-> d6, log |-> <<>>]
    ELSE [error |-> FALSE, df_clean |-> d6, log |-> cleaning_log(df, d1, d4, d6)]

\* lines 89-105 on the table d4 of line 87
clean_from_cross_rate(df, d1, d4) ==
    clean_result(df, d1, d4, normalize_strings(fill_cross_rate(d4)))

\* lines 53-105 on the renamed table d1
clean_renamed(df, d1) ==
    clean_from_cross_rate(df, d1, convert_amounts(convert_dates(remove_duplicates(d1))))

\* clean_data(df): [error, df_clean, log]
clean_data(df) == clean_renamed(df, rename(df))

(***************************************************************************)
(* Currency conversion and risk score                                      *)
(***************************************************************************)
RUB == <<"R", "U", "B">>
\* the statuses that count as settled: 'oplachen' (Russian: paid), 'closed', 'paid'
paid_statuses ==
    {<<"o", "p", "l", "a", "c", "h", "e", "n">>,
     <<"c", "l", "o", "s", "e", "d">>,
     <<"p", "a", "i", "d">>}
\* the high-risk country: 'egipet' (Russian: Egypt)
egipet == <<"e", "g", "i", "p", "e", "t">>

\* a * b on floats: NaN when either is NaN
CellMul(a, b) ==
    IF IsNull(a) \/ IsNull(b) THEN NullCell ELSE NumCell(QMul(a.q, b.q))

\* a > b on floats: False when either is NaN
CellGt(a, b) == ~IsNull(a) /\ ~IsNull(b) /\ QGt(a.q, b.q)

\* a conversion that compares the currency code without regard to case
amount_rub_any_case(x) ==
    IF x["invoice_currency"].k # "str" \/ str_lower(x["invoice_currency"].s) # str_lower(RUB)
    THEN CellMul(x["invoice_amount"], x["cross_rate"])
    ELSE x["invoice_amount"]

\* the lambda of the conversion: invoice_amount * cross_rate unless the
\* currency is 'RUB'
amount_rub(x) ==
    IF x["invoice_currency"] # StrCell(RUB)
    THEN CellMul(x["invoice_amount"], x["cross_rate"])
    ELSE x["invoice_amount"]

\* the columns the lambda reads on the rows of df
ConvertReads(df) ==
    {"invoice_currency", "invoice_amount"}
    \cup (IF \E i \in 1..Len(df.rows) :
                "invoice_currency" \in df.columns
                /\ df.rows[i]["invoice_currency"] # StrCell(RUB)
          THEN {"cross_rate"} ELSE {})

\* df.apply(amount_rub, axis=1) can be stored as a column: on an empty
\* table pandas probes the lambda with a row of NaN, which reads cross_rate
ConvertOk(df) ==
    IF df.rows = <<>>
    THEN {"invoice_currency", "invoice_amount", "cross_rate"} \subseteq df.columns
    ELSE ConvertReads(df) \subseteq df.columns

Convert(df) ==
    SetColumn(df, "amount_rub", [i \in 1..Len(df.rows) |-> amount_rub(df.rows[i])])

\* Timestamp.normalize(): midnight of the same day
normalize(t) == t - (t % TicksPerDay)

\* Timedelta.days: whole days, rounded down
days(delta) == delta \div TicksPerDay

\* the overdue component of calculate_risk_score
overdue_penalty(row, now) ==
    LET today == normalize(now)
        has_date == "invoice_date" \in DOMAIN row /\ ~IsNull(row["invoice_date"])
        due_date == row["invoice_date"].t + 30 * TicksPerDay
        days_overdue == days(today - due_date)
    IN  IF has_date /\ days_overdue > 0
        THEN 50 + (IF days_overdue * 5 < 50 THEN days_overdue * 5 ELSE 50)
        ELSE 0

large_penalty(row, df) ==
    IF "amount_rub" \in DOMAIN row
       /\ CellGt(row["amount_rub"], median(Column(df, "amount_rub")))
    THEN 10 ELSE 0

status_penalty(row) ==
    LET status == IF "status" \in DOMAIN row THEN row["status"] ELSE StrCell(<<>>)
    IN  IF status.k = "str" /\ status.s \in paid_statuses THEN 0 ELSE 15

country_penalty(row) ==
    IF "country" \in DOMAIN row /\ row["country"] = StrCell(egipet) THEN 15 ELSE 0

Min(a, b) == IF a < b THEN a ELSE b
Max(a, b) == IF a > b THEN a ELSE b

\* a score that is returned without the final min
calculate_risk_score_unclamped(row, df, now) ==
    overdue_penalty(row, now) + large_penalty(row, df)
    + status_penalty(row) + country_penalty(row)

\* calculate_risk_score(row), with the global df_clean and the clock as arguments
calculate_risk_score(row, df, now) ==
    Min(overdue_penalty(row, now) + large_penalty(row, df)
        + status_penalty(row) + country_penalty(row), 100)

\* Series.clip(lower, upper) on one value
clip(x, lower, upper) == Min(Max(x, lower), upper)

\* lines 201-216: median_amount, amount_rub, risk_score and the second
\* large-amount step that runs when the table has a column named 'amount'
Score(df0, now) ==
    LET has_amount == "amount" \in df0.columns
        median_amount == IF has_amount THEN median(Column(df0, "amount")) ELSE NumCell(QZero)
        df1 == Convert(df0)
        first == [i \in 1..Len(df1.rows) |-> calculate_risk_score(df1.rows[i], df1, now)]
        second == [i \in 1..Len(df1.rows) |->
                      IF has_amount
                      THEN clip(first[i] + (IF CellGt(df1.rows[i]["amount"], median_amount)
                                            THEN 10 ELSE 0), 0, 100)
                      ELSE first[i]]
    IN  SetColumn(df1, "risk_score", [i \in 1..Len(df1.rows) |-> NumCell(QInt(second[i]))])

(***************************************************************************)
(* Filters and KPI block                                                   *)
(***************************************************************************)
\* the 'all values' entry of the select boxes (Russian: 'Vse')
Vse == <<"V", "s", "e">>

Where(df, P(_)) ==
    TakeRows(df, SelectIdx([i \in 1..Len(df.rows) |-> P(df.rows[i])], 1, Len(df.rows)))

\* Series.unique()
unique(col) == {col[i] : i \in 1..Len(col)}

\* df[df['risk_score'] >= min_risk]
FilterRisk(df, min_risk) ==
    LET P(x) == ~QLt(x["risk_score"].q, QInt(min_risk))
    IN  Where(df, P)

\* the filter of one select box: no filter when the column is absent or
\* the 'all values' entry is selected
FilterEq(df, col, selected) ==
    LET P(x) == x[col] = StrCell(selected)
    IN  IF col \in df.columns /\ selected # Vse THEN Where(df, P) ELSE df

\* the entries a select box offers
Options(df, col) ==
    {Vse} \cup (IF col \in df.columns THEN {c.s : c \in unique(Column(df, col))} ELSE {})

\* invoice_date + pd.Timedelta(days=30), NaT stays NaT
add_30_days(c) == IF IsNull(c) THEN NullCell ELSE TsCell(c.t + 30 * TicksPerDay)

with_due_date(df) ==
    SetColumn(df, "due_date",
              [i \in 1..Len(df.rows) |-> add_30_days(df.rows[i]["invoice_date"])])

\* due_date < now, False for NaT
is_before(c, now) == ~IsNull(c) /\ c.t < now

is_paid(x) == x["status"].k = "str" /\ x["status"].s \in paid_statuses

\* a KPI block that guards the division with total_amount != 0
KPI_nonzero_guard(view, now) ==
    LET unpaid(x) == ~is_paid(x)
        overdue(x) == is_before(x["due_date"], now)
        total_expected == sum(Column(Where(view, unpaid), "amount_rub"))
        total_overdue == sum(Column(Where(view, overdue), "amount_rub"))
        total_amount == sum(Column(view, "amount_rub"))
        overdue_ratio == IF total_amount # QZero
                         THEN QMul(QDiv(total_overdue, total_amount), QInt(100))
                         ELSE QZero
    IN  [total_expected |-> total_expected,
         total_overdue |-> total_overdue,
         overdue_ratio |-> overdue_ratio,
         total_amount |-> total_amount,
         total_invoices |-> Len(view.rows)]

\* lines 243-280 on the filtered view (due_date and amount_rub already set)
KPI(view, now) ==
    LET unpaid(x) == ~is_paid(x)
        overdue(x) == is_before(x["due_date"], now)
        total_expected == sum(Column(Where(view, unpaid), "amount_rub"))
        total_overdue == sum(Column(Where(view, overdue), "amount_rub"))
        total_amount == sum(Column(view, "amount_rub"))
        overdue_ratio == IF QGt(total_amount, QZero)
                         THEN QMul(QDiv(total_overdue, total_amount), QInt(100))
                         ELSE QZero
    IN  [total_expected |-> total_expected,
         total_overdue |-> total_overdue,
         overdue_ratio |-> overdue_ratio,
         total_amount |-> total_amount,
         total_invoices |-> Len(view.rows)]

\* line 272: overdue_mask, one boolean per record of the view
overdue_mask(view, now) ==
    [i \in 1..Len(view.rows) |-> is_before(view.rows[i]["due_date"], now)]

\* the KPI variables as initialised on lines 244-248, before any computation
KPI0 ==
    [total_expected |-> QZero, total_overdue |-> QZero, overdue_ratio |-> QZero,
     total_amount |-> QZero, total_invoices |-> 0]

(***************************************************************************)
(* Hypothesis check                                                        *)
(***************************************************************************)
\* k / 0 on floats
InfCell == [k |-> "inf", s |-> <<>>, q |-> QZero, t |-> 0]

\* numpy round to 2 decimals (half to even)
round2(q) ==
    LET n == q.n * 100
        f == n \div q.d
        r == n - f * q.d
        up == 2 * r > q.d \/ (2 * r = q.d /\ f % 2 = 1)
    IN  Q(IF up THEN f + 1 ELSE f, 100)

\* Series.mean() of the non-null values, NaN when there is none
mean(col) ==
    LET v == NonNull(col)
    IN  IF v = <<>> THEN NullCell ELSE NumCell(QDiv(QSum(v), QInt(Len(v))))

round2_cell(c) == IF c.k = "num" THEN NumCell(round2(c.q)) ELSE c

\* (overdue_invoices / total_invoices) * 100, rounded: 0/0 is NaN, k/0 is inf
ratio_pct(overdue_invoices, total_invoices) ==
    IF total_invoices = 0
    THEN (IF overdue_invoices = 0 THEN NullCell ELSE InfCell)
    ELSE NumCell(round2(Q(100 * overdue_invoices, total_invoices)))

\* hypothesis_df['is_overdue']
is_overdue(x, now) == is_before(add_30_days(x["invoice_date"]), now) /\ ~is_paid(x)

\* the country_overdue table: one record per value of the country column
country_overdue_table(df, now) ==
    LET overdue(x) == is_overdue(x, now)
        overdue_df == Where(df, overdue)
    IN  [g \in unique(Column(df, "country")) |->
            LET in_g(x) == x["country"] = g
                grp == Where(df, in_g)
                grp_overdue == Where(overdue_df, in_g)
                total_invoices == Len(grp.rows) - isna_sum(Column(grp, "invoice_id"))
                overdue_invoices == Len(grp_overdue.rows)
            IN  [total_invoices |-> total_invoices,
                 overdue_invoices |-> overdue_invoices,
                 avg_invoice_amount_rub |-> round2_cell(mean(Column(grp, "amount_rub"))),
                 overdue_ratio |-> ratio_pct(overdue_invoices, total_invoices),
                 avg_overdue_amount_rub |->
                     IF overdue_df.rows = <<>> THEN NumCell(QZero)
                     ELSE IF grp_overdue.rows = <<>> THEN NullCell
                     ELSE round2_cell(mean(Column(grp_overdue, "amount_rub")))]]

\* a > b on floats with inf: False when either is NaN
ExtGt(a, b) ==
    /\ ~IsNull(a) /\ ~IsNull(b)
    /\ \/ a.k = "inf" /\ b.k = "num"
       \/ a.k = "num" /\ b.k = "num" /\ QGt(a.q, b.q)

\* a * 1.5 on floats with inf
times_1_5(a) == IF a.k = "num" THEN NumCell(QMul(a.q, Q(3, 2))) ELSE a

RECURSIVE FiniteRatios(_, _)
\* the finite overdue ratios of the groups S of country_overdue
FiniteRatios(co, S) ==
    IF S = {} THEN <<>>
    ELSE LET g == CHOOSE g \in S : TRUE
         IN  (IF co[g].overdue_ratio.k = "num" THEN <<co[g].overdue_ratio.q>> ELSE <<>>)
             \o FiniteRatios(co, S \ {g})

\* the ratios of the groups as a collection: finite values sorted, and the
\* number of inf; NaN is skipped by max() and median()
Ratios(co) ==
    [finite |-> SortQ(FiniteRatios(co, DOMAIN co)),
     infs |-> Cardinality({g \in DOMAIN co : co[g].overdue_ratio.k = "inf"})]

\* Series.max()
ratio_max(co) ==
    LET r == Ratios(co)
    IN  IF r.infs > 0 THEN InfCell
        ELSE IF r.finite = <<>> THEN NullCell
        ELSE NumCell(r.finite[Len(r.finite)])

\* Series.median()
ratio_median(co) ==
    LET r == Ratios(co)
        n == Len(r.finite) + r.infs
        at(i) == IF i <= Len(r.finite) THEN NumCell(r.finite[i]) ELSE InfCell
        lo == at(n \div 2)
        hi == at((n \div 2) + 1)
    IN  IF n = 0 THEN NullCell
        ELSE IF n % 2 = 1 THEN at((n + 1) \div 2)
        ELSE IF hi.k = "inf" THEN InfCell
        ELSE NumCell(QMul(QAdd(lo.q, hi.q), Q(1, 2)))

\* a check whose second comparison is >= instead of >
hypothesis_check_non_strict(co) ==
    LET highest_risk_ratio == ratio_max(co)
        median_ratio == ratio_median(co)
    IN  IF ExtGt(highest_risk_ratio, times_1_5(median_ratio)) THEN "confirmed"
        ELSE IF ~ExtGt(median_ratio, highest_risk_ratio)
                /\ ~IsNull(median_ratio) /\ ~IsNull(highest_risk_ratio)
             THEN "partially confirmed"
        ELSE "not confirmed"

\* lines 427-442: the message shown for the country of the highest ratio
hypothesis_check(co) ==
    LET highest_risk_ratio == ratio_max(co)
        median_ratio == ratio_median(co)
    IN  IF ExtGt(highest_risk_ratio, times_1_5(median_ratio)) THEN "confirmed"
        ELSE IF ExtGt(highest_risk_ratio, median_ratio) THEN "partially confirmed"
        ELSE "not confirmed"

\* Series.idxmax() on a column of NaN only: raises or returns NaN, by the
\* pandas version
idxmax_undefined(co) == \A g \in DOMAIN co : IsNull(co[g].overdue_ratio)

(***************************************************************************)
(* The run of the script on one uploaded table                             *)
(***************************************************************************)
VARIABLES
    pc,              \* position of the run: uploaded, cleaned, scored, done, error
    df,              \* the uploaded table
    now,             \* the clock at the run
    run,             \* 1 for a run on an upload, 2 for a run on the cleaned table
    first_run,       \* the cleaned and scored table of the first run
    df_clean,        \* the global df_clean
    clean_log,       \* the log returned by clean_data
    session_state,   \* st.session_state.df is assigned
    shown,           \* what the page has shown: success, error, metrics, hypothesis
    widgets,         \* the values of the slider and the two select boxes
    df_filtered,     \* the filtered view
    kpi_data,        \* the KPI variables
    country_overdue, \* the per-country breakdown
    hypothesis       \* the result of the hypothesis check

vars == <<pc, df, now, run, first_run, df_clean, clean_log, session_state, shown,
          widgets, df_filtered, kpi_data, country_overdue, hypothesis>>

MaxRows == 3
MaxRowsWide == 2
MaxRuns == 2

\* the headers of the uploaded tables of the model
RawColumns ==
    {"Nomer invoysa", "Data invoysa ili ego otpravki", "Summa invoysa",
     "Valyuta invoysa", "Sostoyanie invoysa", "kross-kurs", "Strana"}

RawRow(id, date, amount, currency, status, rate, country) ==
    [c \in RawColumns |->
        CASE c = "Nomer invoysa" -> id
          [] c = "Data invoysa ili ego otpravki" -> date
          [] c = "Summa invoysa" -> amount
          [] c = "Valyuta invoysa" -> currency
          [] c = "Sostoyanie invoysa" -> status
          [] c = "kross-kurs" -> rate
          [] c = "Strana" -> country]

\* a table read from a file: the rows are labelled 0, 1, ...
Table(columns, rows) ==
    [columns |-> columns,
     index |-> [i \in 1..Len(rows) |-> i - 1],
     rows |-> [i \in 1..Len(rows) |-> [c \in columns |-> rows[i][c]]]]

\* the tables of at most n rows drawn from R
Tables(R, n) == {Table(RawColumns, rows) : rows \in UNION {[1..k -> R] : k \in 0..n}}

\* the same table without the business-key column
WithoutKey(t) == Table(t.columns \ {"Nomer invoysa"}, t.rows)

\* the same table with a numeric column named 'amount', which no header maps to
WithAmount(t, values) ==
    [t EXCEPT !.columns = t.columns \cup {"amount"},
              !.rows = [i \in 1..Len(t.rows) |->
                           [c \in t.columns \cup {"amount"} |->
                               IF c = "amount" THEN values[i] ELSE t.rows[i][c]]]]

InitWith(tables, clocks) ==
    /\ pc = "uploaded"
    /\ df \in tables
    /\ now \in clocks
    /\ run = 1
    /\ first_run = EmptyTable
    /\ df_clean = EmptyTable
    /\ clean_log = <<>>
    /\ session_state = FALSE
    /\ shown = {}
    /\ widgets = [min_risk |-> 50, selected_country |-> Vse, selected_status |-> Vse]
    /\ df_filtered = EmptyTable
    /\ kpi_data = KPI0
    /\ country_overdue = <<>>
    /\ hypothesis = "none"

\* lines 181-198: read the upload, clean_data, store the result, show the log
CleanStep ==
    /\ pc = "uploaded"
    /\ \E r \in {clean_data(df)} :
          IF r.error
          THEN /\ pc' = "error"
               /\ shown' = shown \cup {"error"}
               /\ UNCHANGED <<df_clean, clean_log, session_state>>
          ELSE /\ pc' = "cleaned"
               /\ df_clean' = r.df_clean
               /\ clean_log' = r.log
               /\ session_state' = TRUE
               /\ shown' = shown \cup {"success"}
    /\ UNCHANGED <<df, now, run, first_run, widgets, df_filtered, kpi_data,
                   country_overdue, hypothesis>>

\* lines 200-216: median_amount, amount_rub and risk_score
ScoreStep ==
    /\ pc = "cleaned"
    /\ IF ConvertOk(df_clean)
       THEN /\ pc' = "scored"
            /\ df_clean' = Score(df_clean, now)
            /\ shown' = shown
       ELSE /\ pc' = "error"
            /\ shown' = shown \cup {"error"}
            /\ df_clean' = df_clean
    /\ UNCHANGED <<df, now, run, first_run, clean_log, session_state, widgets,
                   df_filtered, kpi_data, country_overdue, hypothesis>>

\* the view of lines 218-265 for given widget values
View(w) ==
    LET f1 == FilterRisk(df_clean, w.min_risk)
        f2 == FilterEq(f1, "country", w.selected_country)
        f3 == FilterEq(f2, "status", w.selected_status)
    IN  Convert(with_due_date(f3))

\* the widget values the page can offer on df_clean
WidgetChoices ==
    {w \in [min_risk : {0, 50}, selected_country : Options(df_clean, "country"),
            selected_status : Options(df_clean, "status")] :
        LET f1 == FilterRisk(df_clean, w.min_risk)
            f2 == FilterEq(f1, "country", w.selected_country)
        IN  /\ w.selected_country \in Options(f1, "country")
            /\ w.selected_status \in Options(f2, "status")}

\* lines 218-449: filters, KPI block, per-country breakdown, hypothesis check
DashboardStep ==
    /\ pc = "scored"
    /\ \E w \in WidgetChoices, raises \in BOOLEAN :
          LET co == country_overdue_table(df_clean, now)
          IN  /\ widgets' = w
              /\ df_filtered' = View(w)
              /\ kpi_data' = KPI(View(w), now)
              /\ country_overdue' = co
              /\ IF DOMAIN co # {} /\ idxmax_undefined(co) /\ raises
                 THEN /\ pc' = "error"
                      /\ hypothesis' = hypothesis
                      /\ shown' = shown \cup {"metrics", "error"}
                 ELSE /\ ~raises
                      /\ pc' = "done"
                      /\ hypothesis' = IF DOMAIN co # {} THEN hypothesis_check(co) ELSE "none"
                      /\ shown' = shown \cup {"metrics"}
                                  \cup (IF DOMAIN co # {} THEN {"hypothesis"} ELSE {})
    /\ UNCHANGED <<df, now, run, first_run, df_clean, clean_log, session_state>>

\* the pipeline is run again, at the same clock, on its own cleaned and
\* scored table
RerunOnCleaned ==
    /\ pc = "done"
    /\ run < MaxRuns
    /\ pc' = "uploaded"
    /\ run' = run + 1
    /\ df' = df_clean
    /\ first_run' = df_clean
    /\ df_clean' = EmptyTable
    /\ clean_log' = <<>>
    /\ session_state' = FALSE
    /\ shown' = {}
    /\ widgets' = [min_risk |-> 50, selected_country |-> Vse, selected_status |-> Vse]
    /\ df_filtered' = EmptyTable
    /\ kpi_data' = KPI0
    /\ country_overdue' = <<>>
    /\ hypothesis' = "none"
    /\ UNCHANGED now

\* one run of the script on an uploaded table
Next == CleanStep \/ ScoreStep \/ DashboardStep

\* runs of the script, the later ones on the cleaned table of the run before
NextRerun == CleanStep \/ ScoreStep \/ DashboardStep \/ RerunOnCleaned

(***************************************************************************)
(* Inputs                                                                  *)
(***************************************************************************)
Str(s) == StrCell(s)
Num(i) == NumCell(QInt(i))

id_A1 == Str(<<"A", "1">>)
id_A2 == Str(<<"A", "2">>)

\* invoice dates, as the text of the file; the clock is 2024-04-15
date_45_days_ago == Str(<<"0", "1", ".", "0", "3", ".", "2", "0", "2", "4">>)
date_33_days_ago == Str(<<"1", "3", ".", "0", "3", ".", "2", "0", "2", "4">>)
date_31_days_ago == Str(<<"1", "5", ".", "0", "3", ".", "2", "0", "2", "4">>)
date_30_days_ago == Str(<<"1", "6", ".", "0", "3", ".", "2", "0", "2", "4">>)
date_5_days_ago == Str(<<"1", "0", ".", "0", "4", ".", "2", "0", "2", "4">>)
date_bad == Str(<<"n", "/", "a">>)

\* invoice amounts, as the text of the file
amount_100 == Str(<<"1", "0", "0">>)
amount_1200_50 ==
    Str(<<"APPROX", " ", "1", " ", "2", "0", "0", ",", "5", "0", " ", "u", "s", "d">>)
amount_minus_150 == Str(<<"-", "1", "5", "0">>)
amount_bad == Str(<<"a", "b", "c">>)

amount_150 == Str(<<"1", "5", "0">>)

cur_RUB == Str(RUB)
cur_rub == Str(<<"r", "u", "b">>)
cur_USD == Str(<<"U", "S", "D">>)

status_paid == Str(<<" ", "P", "a", "i", "d", " ">>)
status_open == Str(<<"O", "p", "e", "n">>)

country_egipet == Str(<<"E", "g", "i", "p", "e", "t", " ">>)
country_oae == Str(<<"O", "A", "E">>)
country_china == Str(<<"c", "h", "i", "n", "a">>)

midnight == Timestamp(2024, 4, 15)
Clocks == {midnight, midnight + 1}

\* the invoice numbers A1, A2, ... of a table whose rows are all distinct invoices
id_at(i) == Str(<<"A", DigitChar[i + 1]>>)

\* the table with the invoice numbers A1, A2, ... in place of the non-null ones
Numbered(t) ==
    [t EXCEPT !.rows = [i \in 1..Len(t.rows) |->
                           [t.rows[i] EXCEPT !["Nomer invoysa"] =
                               IF IsNull(@) THEN @ ELSE id_at(i)]]]

NumberedTables(R, n) == {Numbered(t) : t \in Tables(R, n)}

\* tables that vary the business key, with the cross rate and the amount
KeyRows ==
    {RawRow(id, date_45_days_ago, ra[2], cur_USD, status_open, ra[1], country_china) :
        id \in {id_A1, id_A2, NullCell},
        ra \in {<<NullCell, amount_1200_50>>, <<Num(2), amount_100>>,
                <<Num(5), amount_minus_150>>}}

KeyTables ==
    Tables(KeyRows, MaxRows) \cup {WithoutKey(t) : t \in Tables(KeyRows, 1)}

InitKeys == InitWith(KeyTables, {midnight})
SpecKeys == InitKeys /\ [][Next]_vars

\* tables that vary the currency, the amount and the cross rate
ConversionRows ==
    {RawRow(id_A1, date_45_days_ago, amount, currency, status_open, rate, country_china) :
        currency \in {cur_RUB, cur_rub, cur_USD},
        amount \in {amount_100, amount_bad},
        rate \in {NullCell, Num(3)}}

\* tables in rubles that vary the sign of the amount and the age of the invoice
KpiRows ==
    {RawRow(id_A1, date, amount, cur_RUB, status_open, Num(3), country_china) :
        date \in {date_45_days_ago, date_5_days_ago},
        amount \in {amount_150, amount_minus_150, amount_bad}}

MoneyTables ==
    NumberedTables(ConversionRows, MaxRowsWide) \cup NumberedTables(KpiRows, MaxRows)
    \cup {WithoutKey(t) : t \in Tables(KpiRows, 1)}

InitMoney == InitWith(MoneyTables, Clocks)
SpecMoney == InitMoney /\ [][Next]_vars

\* tables that vary what the risk score reads, and the record with every
\* optional field missing
ScoreRows ==
    {RawRow(id_A1, da[1], da[2], cur_USD, status, Num(3), country) :
        da \in {<<date_45_days_ago, amount_1200_50>>, <<date_33_days_ago, amount_100>>,
                <<date_bad, amount_100>>},
        status \in {status_paid, status_open},
        country \in {country_egipet, country_china}}
    \cup {RawRow(id_A1, NullCell, NullCell, NullCell, NullCell, NullCell, NullCell)}

\* tables with a column named 'amount'
AmountRows ==
    {RawRow(id_A1, date, amount_100, cur_USD, status, Num(3), country_egipet) :
        date \in {date_45_days_ago, date_bad},
        status \in {status_paid, status_open}}

AmountTables ==
    UNION {{WithAmount(t, values) : values \in [1..Len(t.rows) -> {Num(1), Num(5)}]} :
              t \in NumberedTables(AmountRows, MaxRowsWide)}

ScoreTables ==
    NumberedTables(ScoreRows, MaxRowsWide) \cup AmountTables
    \cup {WithoutKey(t) : t \in Tables(AmountRows, 1)}

InitScore == InitWith(ScoreTables, {midnight + 1})
SpecScore == InitScore /\ [][Next]_vars

\* tables for the second run: repeated and missing ids, formatted and
\* unparseable amounts, missing rates and statuses
RerunRows ==
    {RawRow(id, date_45_days_ago, amount, cur_USD, status, rate, country_egipet) :
        id \in {id_A1, NullCell},
        amount \in {amount_1200_50, amount_bad},
        rate \in {NullCell, Num(3)},
        status \in {status_paid, NullCell}}

RerunTables ==
    Tables(RerunRows, MaxRowsWide) \cup AmountTables
    \cup {WithoutKey(t) : t \in Tables(AmountRows, 1)}

InitRerun == InitWith(RerunTables, {midnight + 1})
SpecRerun == InitRerun /\ [][NextRerun]_vars

\* tables that vary the country and the age of the invoice, with records of
\* one country that have no invoice number
CountryRows ==
    {RawRow(id_A1, date, amount_100, cur_USD, status_open, Num(3), country) :
        date \in {date_45_days_ago, date_5_days_ago},
        country \in {country_egipet, country_china}}
    \cup {RawRow(id_A1, date_45_days_ago, amount_100, cur_USD, status_open, Num(3),
                 country_oae)}
    \cup {RawRow(NullCell, date, amount_100, cur_USD, status_open, Num(3), country_china) :
            date \in {date_45_days_ago, date_5_days_ago}}

CountryTables ==
    NumberedTables(CountryRows, MaxRows) \cup {WithoutKey(t) : t \in Tables(CountryRows, 1)}

InitCountry == InitWith(CountryTables, {midnight + 1})
SpecCountry == InitCountry /\ [][Next]_vars

\* tables that vary the due date around the day of the run: due the day
\* before, due on the day itself, not yet due, and without a date
DueRows ==
    {RawRow(id_A1, date, amount_150, cur_RUB, status, Num(3), country_china) :
        date \in {date_31_days_ago, date_30_days_ago, date_5_days_ago, date_bad},
        status \in {status_open, status_paid}}

DueTables ==
    NumberedTables(DueRows, MaxRowsWide) \cup {WithoutKey(t) : t \in Tables(DueRows, 1)}

InitDue == InitWith(DueTables, Clocks)
SpecDue == InitDue /\ [][Next]_vars

\* every table of the model
Init ==
    InitWith(KeyTables \cup MoneyTables \cup ScoreTables \cup CountryTables \cup DueTables,
             Clocks)
Spec == Init /\ [][Next]_vars

(***************************************************************************)
(* Properties of clean_data                                                *)
(***************************************************************************)
Cleaned == run = 1 /\ pc \in {"cleaned", "scored", "done"}

\* the cell of the uploaded table in the row labelled l
Uploaded(l, header) == df.rows[l + 1][header]

RawIds == [i \in 1..Len(df.rows) |-> df.rows[i]["Nomer invoysa"]]
CleanIds == Column(df_clean, "invoice_id")
Count(col, v) == Cardinality({i \in 1..Len(col) : col[i] = v})

\* the uploaded cross rates, nulls left out, of the rows that survive
\* deduplication
ObservedRates ==
    LET kept == SelectIdx([j \in 1..Len(df_clean.rows) |->
                              ~IsNull(Uploaded(df_clean.index[j], "kross-kurs"))],
                          1, Len(df_clean.rows))
    IN  [j \in 1..Len(kept) |-> Uploaded(df_clean.index[kept[j]], "kross-kurs").q]

\* v is the value at position p of vals when vals is put in increasing order
AtRank(v, vals, p) ==
    /\ \E k \in 1..Len(vals) : vals[k] = v
    /\ Cardinality({k \in 1..Len(vals) : QLt(vals[k], v)}) < p
    /\ p <= Cardinality({k \in 1..Len(vals) : ~QLt(v, vals[k])})

\* m is the median of vals: the mean of the two middle values (the same
\* value when the length is odd)
IsMedianOf(m, vals) ==
    \E a, b \in {vals[k] : k \in 1..Len(vals)} :
        /\ AtRank(a, vals, (Len(vals) + 1) \div 2)
        /\ AtRank(b, vals, (Len(vals) \div 2) + 1)
        /\ QAdd(m, m) = QAdd(a, b)

\* v is strictly greater than the median of vals
AboveMedian(v, vals) ==
    \E a, b \in {vals[k] : k \in 1..Len(vals)} :
        /\ AtRank(a, vals, (Len(vals) + 1) \div 2)
        /\ AtRank(b, vals, (Len(vals) \div 2) + 1)
        /\ QGt(QAdd(v, v), QAdd(a, b))

\* C2 as stated: after clean_data no record has a null cross_rate, also
\* when every cross_rate of the batch is null
C2_NoNullCrossRate ==
    Cleaned /\ "cross_rate" \in df_clean.columns
        => \A j \in 1..Len(df_clean.rows) : ~IsNull(df_clean.rows[j]["cross_rate"])

\* C2 amended: when at least one record that survives deduplication has a
\* cross_rate, no cleaned record has a null cross_rate: a rate that was given
\* is kept and a null rate is replaced by the median of the given rates of
\* the surviving records; when none has a rate, every cross_rate stays null
C2_CrossRateImputed ==
    Cleaned /\ "cross_rate" \in df_clean.columns
        => \A j \in 1..Len(df_clean.rows) :
              LET given == Uploaded(df_clean.index[j], "kross-kurs")
                  rate == df_clean.rows[j]["cross_rate"]
              IN  IF ~IsNull(given) THEN rate = given
                  ELSE IF ObservedRates = <<>> THEN IsNull(rate)
                  ELSE ~IsNull(rate) /\ IsMedianOf(rate.q, ObservedRates)

\* C2 witness: the second record repeats the id of the first and is removed
\* with its rate 5; the null rate of the third record is replaced by 2, the
\* median of the rates of the surviving records
C2_Witness ==
    /\ pc = "cleaned" /\ run = 1
    /\ Len(df.rows) = 3 /\ df_clean.index = <<0, 2>>
    /\ df.rows[1]["kross-kurs"] = Num(2)
    /\ df.rows[2]["kross-kurs"] = Num(5)
    /\ IsNull(df.rows[3]["kross-kurs"])
    /\ df_clean.rows[2]["cross_rate"] = Num(2)

\* C3: every non-null invoice_id of the upload is on exactly one cleaned
\* record, that record is the first one of the upload with that id (its label,
\* its amount and its given rate are those of the first), and the number of
\* removed records is logged as duplicates_removed
C3_FirstOccurrenceWins ==
    Cleaned =>
        /\ \A i \in 1..Len(df.rows) :
              LET v == RawIds[i]
                  first == CHOOSE f \in 1..i :
                               RawIds[f] = v /\ \A g \in 1..(f - 1) : RawIds[g] # v
              IN  ~IsNull(v) =>
                    /\ Count(CleanIds, v) = 1
                    /\ \A j \in 1..Len(df_clean.rows) :
                          CleanIds[j] = v =>
                            /\ df_clean.index[j] = first - 1
                            /\ df_clean.rows[j]["invoice_amount"]
                                  = clean_amount(df.rows[first]["Summa invoysa"])
                            /\ ~IsNull(df.rows[first]["kross-kurs"])
                                  => df_clean.rows[j]["cross_rate"] = df.rows[first]["kross-kurs"]
        /\ clean_log["duplicates_removed"] = Len(df.rows) - Len(df_clean.rows)

\* C3 witness: the id A1 is on the first and on the third record, with
\* different amounts, and the cleaned table has two records
C3_Witness ==
    /\ pc = "cleaned" /\ run = 1
    /\ Len(df.rows) = 3
    /\ RawIds[1] = id_A1 /\ RawIds[2] = id_A2 /\ RawIds[3] = id_A1
    /\ df.rows[1]["Summa invoysa"] # df.rows[3]["Summa invoysa"]
    /\ Len(df_clean.rows) = 2
    /\ clean_log["duplicates_removed"] = 1

\* C4 as stated: when k >= 2 uploaded records have a null invoice_id, all k
\* are in the cleaned table and duplicates_removed counts only the records
\* removed for a repeated non-null id
C4_NullKeysKept ==
    Cleaned =>
        LET k == Count(RawIds, NullCell)
            distinct == Cardinality({RawIds[i] : i \in 1..Len(df.rows)} \ {NullCell})
        IN  k >= 2 =>
              /\ Count(CleanIds, NullCell) = k
              /\ clean_log["duplicates_removed"] = (Len(df.rows) - k) - distinct

\* C9 as stated: an upload without the business-key column, or with no row,
\* ends in the error outcome with no cleaned table, no risk score and no KPI
Structural == "Nomer invoysa" \notin df.columns \/ df.rows = <<>>

C9_StructuralErrorAborts ==
    run = 1 /\ pc # "uploaded" /\ Structural
        => /\ pc = "error"
           /\ ~session_state
           /\ "risk_score" \notin df_clean.columns
           /\ "metrics" \notin shown

(***************************************************************************)
(* Properties of the conversion and of the risk score                      *)
(***************************************************************************)
Scored == pc \in {"scored", "done"}

\* the tables that hold records with a risk score
ScoredTables ==
    {t \in {df_clean, df_filtered} : "risk_score" \in t.columns}

\* C1: every stored risk_score is a whole number from 0 to 100
C1_RiskScoreRange ==
    \A t \in ScoredTables : \A i \in 1..Len(t.rows) :
        LET score == t.rows[i]["risk_score"]
        IN  score.k = "num" /\ score.q.d = 1 /\ score.q.n >= 0 /\ score.q.n <= 100

\* C1 witness: a record overdue by 15 days, unpaid, of the high-risk country
\* and above the median amount, whose components add up to 140, has score 100
C1_Witness ==
    /\ pc = "scored"
    /\ \E i \in 1..Len(df_clean.rows) :
          LET x == df_clean.rows[i]
          IN  /\ overdue_penalty(x, now) = 100
              /\ large_penalty(x, df_clean) = 10
              /\ status_penalty(x) = 15
              /\ country_penalty(x) = 15
              /\ x["risk_score"] = Num(100)

\* C5 as stated: amount_rub is null when invoice_amount or cross_rate is
\* null; otherwise it is invoice_amount when the currency is exactly 'RUB'
\* and invoice_amount * cross_rate for every other currency
C5_ConversionNullIfEitherNull ==
    \A t \in ScoredTables : \A i \in 1..Len(t.rows) :
        LET x == t.rows[i]
        IN  IF IsNull(x["invoice_amount"]) \/ IsNull(x["cross_rate"])
            THEN IsNull(x["amount_rub"])
            ELSE IF x["invoice_currency"] = StrCell(<<"R", "U", "B">>)
            THEN x["amount_rub"] = x["invoice_amount"]
            ELSE /\ x["amount_rub"].k = "num"
                 /\ x["amount_rub"].q.n * x["invoice_amount"].q.d * x["cross_rate"].q.d
                       = x["invoice_amount"].q.n * x["cross_rate"].q.n * x["amount_rub"].q.d

\* C5 amended: amount_rub is null when invoice_amount is null, and when the
\* currency is not exactly 'RUB' and cross_rate is null; otherwise it is
\* invoice_amount when the currency is exactly 'RUB' (whatever the
\* cross_rate, null included) and invoice_amount * cross_rate for every
\* other currency; a null result is never replaced by zero
C5_Conversion ==
    \A t \in ScoredTables : \A i \in 1..Len(t.rows) :
        LET x == t.rows[i]
            is_rub == x["invoice_currency"] = StrCell(<<"R", "U", "B">>)
        IN  IF IsNull(x["invoice_amount"]) \/ (~is_rub /\ IsNull(x["cross_rate"]))
            THEN IsNull(x["amount_rub"])
            ELSE IF is_rub
            THEN x["amount_rub"] = x["invoice_amount"]
            ELSE /\ x["amount_rub"].k = "num"
                 /\ x["amount_rub"].q.n * x["invoice_amount"].q.d * x["cross_rate"].q.d
                       = x["invoice_amount"].q.n * x["cross_rate"].q.n * x["amount_rub"].q.d

\* C5 witness: one table holds a 'RUB' record with a null cross_rate whose
\* amount_rub is its amount, and a 'rub' record without a rate whose
\* amount_rub is null
C5_Witness ==
    /\ pc = "scored"
    /\ \E i, j \in 1..Len(df_clean.rows) :
          /\ df_clean.rows[i]["invoice_currency"] = cur_RUB
          /\ IsNull(df_clean.rows[i]["cross_rate"])
          /\ df_clean.rows[i]["amount_rub"] = Num(100)
          /\ df_clean.rows[j]["invoice_currency"] = cur_rub
          /\ df_clean.rows[j]["invoice_amount"] = Num(100)
          /\ IsNull(df_clean.rows[j]["amount_rub"])

\* C6 as stated: overdue_ratio is 0 when total_amount is 0, and
\* overdue_amount / total_amount * 100 otherwise
C6_OverdueRatioUnlessZero ==
    pc = "done" =>
        IF kpi_data.total_amount = QZero
        THEN kpi_data.overdue_ratio = QZero
        ELSE kpi_data.overdue_ratio.n * kpi_data.total_amount.n * kpi_data.total_overdue.d
                = 100 * kpi_data.total_overdue.n * kpi_data.overdue_ratio.d
                      * kpi_data.total_amount.d

\* C6 amended: overdue_ratio is 0 when total_amount is 0 or negative, with
\* no error raised, and overdue_amount / total_amount * 100 when
\* total_amount is positive; total_amount is 0 for an empty view and for a
\* view whose amounts are all null
C6_OverdueRatio ==
    pc = "done" =>
        /\ "metrics" \in shown /\ "error" \notin shown
        /\ IF kpi_data.total_amount.n <= 0
           THEN kpi_data.overdue_ratio = QZero
           ELSE kpi_data.overdue_ratio.n * kpi_data.total_amount.n * kpi_data.total_overdue.d
                   = 100 * kpi_data.total_overdue.n * kpi_data.overdue_ratio.d
                         * kpi_data.total_amount.d
        /\ (\A i \in 1..Len(df_filtered.rows) : IsNull(df_filtered.rows[i]["amount_rub"]))
              => kpi_data.total_amount = QZero

\* C6 witness: a view of two records, 150 overdue and -150 not yet due: the
\* total is 0, the overdue amount is 150 and the ratio is 0
C6_Witness ==
    /\ pc = "done"
    /\ Len(df_filtered.rows) = 2
    /\ kpi_data.total_amount = QZero
    /\ kpi_data.total_overdue = QInt(150)
    /\ kpi_data.overdue_ratio = QZero

\* C7: a run on the cleaned and scored table of the run before, at the same
\* clock, gives the same number of records and, record by record, the same
\* risk_score and the same amount_rub
C7_Idempotent ==
    run >= 2 /\ Scored =>
        /\ Len(df_clean.rows) = Len(first_run.rows)
        /\ \A i \in 1..Len(df_clean.rows) :
              /\ i <= Len(first_run.rows)
              /\ df_clean.rows[i]["risk_score"] = first_run.rows[i]["risk_score"]
              /\ df_clean.rows[i]["amount_rub"] = first_run.rows[i]["amount_rub"]

\* C7 witness: the second run has scored a table of two records, one
\* without invoice number, one with the amount 1200.5 read back from its
\* text and one whose amount and status were missing
C7_Witness ==
    /\ run = 2 /\ pc = "scored"
    /\ Len(df_clean.rows) = 2
    /\ \E i, j \in 1..2 :
          /\ IsNull(df_clean.rows[i]["invoice_id"])
          /\ df_clean.rows[i]["invoice_amount"] = NumCell(Q(2401, 2))
          /\ df_clean.rows[i]["amount_rub"] = NumCell(Q(7203, 2))
          /\ IsNull(df_clean.rows[j]["invoice_amount"])
          /\ df_clean.rows[j]["status"] = Str(<<"n", "a", "n">>)

\* C10 as stated: risk_score = min(100, O + L + S + C) for every record
C10_ScoreIsClampedSum ==
    Scored =>
        \A i \in 1..Len(df_clean.rows) :
            LET x == df_clean.rows[i]
                evaluation_date == now - (now % TicksPerDay)
                days_overdue ==
                    (evaluation_date - (x["invoice_date"].t + 30 * TicksPerDay))
                        \div TicksPerDay
                amounts == Column(df_clean, "amount_rub")
                O == IF ~IsNull(x["invoice_date"]) /\ days_overdue > 0
                     THEN 50 + Min(5 * days_overdue, 50) ELSE 0
                L == IF ~IsNull(x["amount_rub"])
                        /\ AboveMedian(x["amount_rub"].q, NonNull(amounts))
                     THEN 10 ELSE 0
                S == IF x["status"].s \notin paid_statuses THEN 15 ELSE 0
                C == IF x["country"].s = egipet THEN 15 ELSE 0
            IN  x["risk_score"] = Num(Min(100, O + L + S + C))

(***************************************************************************)
(* Properties of the hypothesis check                                      *)
(***************************************************************************)
\* the groups of the breakdown whose ratio is a number or inf (max() and
\* median() skip NaN)
RatedGroups == {g \in DOMAIN country_overdue : ~IsNull(country_overdue[g].overdue_ratio)}

IsInfinite(g) == country_overdue[g].overdue_ratio.k = "inf"

\* the ratio of group g in hundredths of a percent
Hundredths(g) ==
    (country_overdue[g].overdue_ratio.q.n * 100) \div country_overdue[g].overdue_ratio.q.d

\* the ratio of g is below (or equal to) the ratio of h
RatioLt(g, h) == ~IsInfinite(g) /\ (IsInfinite(h) \/ Hundredths(g) < Hundredths(h))
RatioLe(g, h) == ~RatioLt(h, g)

\* g holds position p when the rated groups are put in increasing order of ratio
GroupAtRank(g, p) ==
    /\ Cardinality({h \in RatedGroups : RatioLt(h, g)}) < p
    /\ p <= Cardinality({h \in RatedGroups : RatioLe(h, g)})

\* r > factor/2 * m, for r the maximum ratio and m the median of the ratios
\* (the mean of the two middle ratios); false when m is inf
MaxExceedsMedian(factor) ==
    \E top, a, b \in RatedGroups :
        /\ \A h \in RatedGroups : RatioLe(h, top)
        /\ GroupAtRank(a, (Cardinality(RatedGroups) + 1) \div 2)
        /\ GroupAtRank(b, (Cardinality(RatedGroups) \div 2) + 1)
        /\ ~IsInfinite(b)
        /\ \/ IsInfinite(top)
           \/ 4 * Hundredths(top) > factor * (Hundredths(a) + Hundredths(b))

\* C8: the result is 'confirmed' iff r > 1.5 * m, 'partially confirmed' iff
\* m < r <= 1.5 * m, and 'not confirmed' otherwise, so also when r = m
C8_HypothesisClassification ==
    pc = "done" /\ DOMAIN country_overdue # {} =>
        /\ hypothesis = "confirmed" <=> MaxExceedsMedian(3)
        /\ hypothesis = "partially confirmed"
              <=> (MaxExceedsMedian(2) /\ ~MaxExceedsMedian(3))
        /\ hypothesis = "not confirmed" <=> ~MaxExceedsMedian(2)

\* C8 witness: three countries with the ratios 0, 100 and 100: the maximum
\* equals the median and the result is 'not confirmed'
C8_Witness ==
    /\ pc = "done"
    /\ Cardinality(DOMAIN country_overdue) = 3
    /\ \E g \in DOMAIN country_overdue : country_overdue[g].overdue_ratio = Num(0)
    /\ Cardinality({g \in DOMAIN country_overdue :
                       country_overdue[g].overdue_ratio = Num(100)}) = 2
    /\ hypothesis = "not confirmed"

(***************************************************************************)
(* C11: the per-country breakdown                                          *)
(***************************************************************************)
\* the positions of the records of df_clean whose country is g
GroupRecords(g) == {i \in 1..Len(df_clean.rows) : df_clean.rows[i]["country"] = g}

\* those of them that are overdue: the due date (invoice date + 30 days) has
\* passed and the status is not one of the settled ones
OverdueRecords(g) ==
    {i \in GroupRecords(g) :
        LET x == df_clean.rows[i]
        IN  /\ x["invoice_date"].k = "ts"
            /\ x["invoice_date"].t + 30 * TicksPerDay < now
            /\ ~(x["status"].k = "str" /\ x["status"].s \in paid_statuses)}

\* the cell r is the percentage 100 * o / n rounded to two decimals
IsRoundedPct(r, o, n) ==
    /\ r.k = "num"
    /\ (r.q.n * 100) % r.q.d = 0
    /\ 2 * Abs(((r.q.n * 100) \div r.q.d) * n - 10000 * o) <= n

\* C11 as stated: for every country group of the cleaned table the reported
\* overdue ratio is (overdue records of the group) / (records of the group)
\* * 100, to two decimals, and the reported mean overdue amount is 0 for
\* every group without an overdue record
C11_CountryBreakdown ==
    pc = "done" =>
        \A g \in DOMAIN country_overdue :
            /\ IsRoundedPct(country_overdue[g].overdue_ratio,
                            Cardinality(OverdueRecords(g)), Cardinality(GroupRecords(g)))
            /\ OverdueRecords(g) = {} =>
                  country_overdue[g].avg_overdue_amount_rub = NumCell(QZero)

(***************************************************************************)
(* C12: the overdue records of the risk score and of the KPI block         *)
(***************************************************************************)
\* calculate_risk_score applied the overdue penalty to the record x
Penalized(x) == overdue_penalty(x, now) >= 50

\* C12 as stated: a record of the view counts in the KPI overdue amount
\* (its due date is before the clock of the run) if and only if the risk
\* score applied the overdue penalty to it, so the KPI overdue amount is the
\* sum of the amounts of the penalized records
C12_OverdueAgreement ==
    pc = "done" =>
        /\ \A i \in 1..Len(df_filtered.rows) :
              overdue_mask(df_filtered, now)[i] <=> Penalized(df_filtered.rows[i])
        /\ kpi_data.total_overdue = sum(Column(Where(df_filtered, Penalized), "amount_rub"))

====
